---- MODULE Spec2Model ----
(***************************************************************************)
(* pngspeak: a payload is stored in the RGBA channels of a PNG and read    *)
(* back.  The model follows src/.pngspeak/__main__.py: the randomness      *)
(* source (read_bytes_from_source), the nearest-neighbour resampler        *)
(* (upscale_image), encode and decode.                                      *)
(*                                                                         *)
(* Representation.  bytes objects are sequences of 0..255.  str objects   *)
(* are sequences of code points.  An Optional[T] argument is <<>> for None *)
(* and <<v>> for the value v.  The inputs of one invocation are drawn in   *)
(* Init; each action applies one function of the program to them.  zlib    *)
(* and the chunk checksums are lossless library round trips and the        *)
(* container is kept at the level of its header fields, its text record    *)
(* and the uncompressed image-data buffer.                                 *)
(***************************************************************************)
EXTENDS Integers, Sequences, FiniteSets, TLC

VARIABLES pc, args, env, filled, png, out

vars == <<pc, args, env, filled, png, out>>

----------------------------------------------------------------------------
(* Python values *)

None == <<>>

Some(v) == <<v>>

IsNone(o) == o = <<>>

Val(o) == o[1]

\* "if uw": an Optional[int] is true when it is neither None nor 0
Truthy(o) == ~IsNone(o) /\ Val(o) # 0

Min(a, b) == IF a <= b THEN a ELSE b

\* s[a:b] for 0 <= a
PySlice(s, a, b) == SubSeq(s, a + 1, Min(b, Len(s)))

\* s[:n] for n >= 0
PyTake(s, n) == PySlice(s, 0, n)

\* s * k
PyRepeat(s, k) == [i \in 1..(Len(s) * k) |-> s[((i - 1) % Len(s)) + 1]]

\* str.encode('utf-8') of one code point below 0x800
Utf8Char(c) == IF c < 128 THEN <<c>> ELSE <<192 + (c \div 64), 128 + (c % 64)>>

RECURSIVE Utf8Encode(_)
Utf8Encode(s) == IF s = <<>> THEN <<>> ELSE Utf8Char(Head(s)) \o Utf8Encode(Tail(s))

----------------------------------------------------------------------------
(* The environment of a call: the files that exist (path -> content),      *)
(* whether the current directory exists, whether /dev/random can be opened,*)
(* whether os.urandom works, and the bytes the system generators deliver   *)
(* (one of a few streams).                                                 *)

\* pathlib.Path(s).exists(); Path('') is Path('.'), the current directory
PathExists(s, e) == IF s = <<>> THEN e.cwd ELSE s \in DOMAIN e.files

\* byte i of what a system generator delivers in environment e
SystemByte(e, i) == 5 + ((e.stream * 37 + i * 11) % 251)

SystemBytes(e, n) == [i \in 1..n |-> SystemByte(e, i)]

Raised == [ok |-> FALSE, bytes |-> <<>>, source |-> "raised"]

Returned(b, src) == [ok |-> TRUE, bytes |-> b, source |-> src]

\* os.urandom(n), falling back to random.getrandbits
UrandomChain(n, e) ==
    IF e.urandom THEN Returned(SystemBytes(e, n), "urandom")
    ELSE Returned(SystemBytes(e, n), "prng")

\* the tile repeated n // len times only
LiteralTileNoExtra(encoded_bytes, n) ==
    PyTake(PyRepeat(encoded_bytes, n \div Len(encoded_bytes)), n)

\* (encoded_bytes * (n // len(encoded_bytes) + 1))[:n]
LiteralTile(encoded_bytes, n) ==
    PyTake(PyRepeat(encoded_bytes, (n \div Len(encoded_bytes)) + 1), n)

read_bytes_from_source(n, rand_source, e) ==
    IF ~IsNone(rand_source)
    THEN LET s == Val(rand_source) IN
         IF PathExists(s, e)
         THEN \* open(rand_source, 'rb'): open('') raises FileNotFoundError
              IF s \in DOMAIN e.files
              THEN Returned(PyTake(e.files[s], n), "file")
              ELSE Raised
         ELSE LET encoded_bytes == Utf8Encode(s) IN
              IF encoded_bytes = <<>>
              THEN UrandomChain(n, e)
              ELSE Returned(LiteralTile(encoded_bytes, n), "literal")
    ELSE IF e.devrandom
         THEN Returned(SystemBytes(e, n), "devrandom")
         ELSE UrandomChain(n, e)

----------------------------------------------------------------------------
(* encode *)

bpp == 4

\* int(n ** 0.5) for n >= 0
Isqrt(n) == CHOOSE r \in 0..n : r * r <= n /\ (r + 1) * (r + 1) > n

\* step 2: the data to embed and the length for the header.  pad is what
\* read_bytes_from_source returned for the padding (used when the input is
\* shorter than cli_length_arg).
LengthForHeader(raw_input_bytes, cli_length_arg) ==
    IF ~IsNone(cli_length_arg) THEN Val(cli_length_arg) ELSE Len(raw_input_bytes)

DataToEmbed(raw_input_bytes, cli_length_arg, pad) ==
    IF ~IsNone(cli_length_arg)
    THEN IF Len(raw_input_bytes) < Val(cli_length_arg)
         THEN raw_input_bytes \o pad
         ELSE IF Len(raw_input_bytes) > Val(cli_length_arg)
              THEN PyTake(raw_input_bytes, Val(cli_length_arg))
              ELSE raw_input_bytes
    ELSE raw_input_bytes

\* step 3
PixelsNeeded(current_data_len) ==
    LET p == (current_data_len + bpp - 1) \div bpp
    IN  IF p = 0 THEN 1 ELSE p

\* the other dimension rounded down instead of up
GridDimensionsFloor(pixels_needed, cli_width_arg, cli_height_arg) ==
    IF IsNone(cli_width_arg) /\ IsNone(cli_height_arg)
    THEN LET w0 == Isqrt(pixels_needed)
             w  == IF w0 = 0 THEN 1 ELSE w0
             h0 == pixels_needed \div w
             h  == IF h0 = 0 THEN 1 ELSE h0
         IN  <<w, h>>
    ELSE IF IsNone(cli_width_arg)
    THEN LET h  == IF Val(cli_height_arg) <= 0 THEN 1 ELSE Val(cli_height_arg)
             w0 == pixels_needed \div h
             w  == IF w0 = 0 THEN 1 ELSE w0
         IN  <<w, h>>
    ELSE IF IsNone(cli_height_arg)
    THEN LET w  == IF Val(cli_width_arg) <= 0 THEN 1 ELSE Val(cli_width_arg)
             h0 == pixels_needed \div w
             h  == IF h0 = 0 THEN 1 ELSE h0
         IN  <<w, h>>
    ELSE <<IF Val(cli_width_arg) <= 0 THEN 1 ELSE Val(cli_width_arg),
           IF Val(cli_height_arg) <= 0 THEN 1 ELSE Val(cli_height_arg)>>

\* <<grid_w, grid_h>>
GridDimensions(pixels_needed, cli_width_arg, cli_height_arg) ==
    IF IsNone(cli_width_arg) /\ IsNone(cli_height_arg)
    THEN LET w0 == Isqrt(pixels_needed)
             w  == IF w0 = 0 THEN 1 ELSE w0
             h0 == (pixels_needed + w - 1) \div w
             h  == IF h0 = 0 THEN 1 ELSE h0
         IN  <<w, h>>
    ELSE IF IsNone(cli_width_arg)
    THEN LET h  == IF Val(cli_height_arg) <= 0 THEN 1 ELSE Val(cli_height_arg)
             w0 == (pixels_needed + h - 1) \div h
             w  == IF w0 = 0 THEN 1 ELSE w0
         IN  <<w, h>>
    ELSE IF IsNone(cli_height_arg)
    THEN LET w  == IF Val(cli_width_arg) <= 0 THEN 1 ELSE Val(cli_width_arg)
             h0 == (pixels_needed + w - 1) \div w
             h  == IF h0 = 0 THEN 1 ELSE h0
         IN  <<w, h>>
    ELSE <<IF Val(cli_width_arg) <= 0 THEN 1 ELSE Val(cli_width_arg),
           IF Val(cli_height_arg) <= 0 THEN 1 ELSE Val(cli_height_arg)>>

\* step 4: fit the data to the grid; pad is what read_bytes_from_source
\* returned (used when the data is shorter than the capacity)
FinalPixelData(data_to_embed, final_pixel_grid_capacity, pad) ==
    IF Len(data_to_embed) < final_pixel_grid_capacity
    THEN data_to_embed \o pad
    ELSE IF Len(data_to_embed) > final_pixel_grid_capacity
         THEN PyTake(data_to_embed, final_pixel_grid_capacity)
         ELSE data_to_embed

\* step 5: the header fields
IhdrDim(u, grid_dim) == IF Truthy(u) THEN Val(u) ELSE grid_dim

\* int.bit_length()
RECURSIVE BitLength(_)
BitLength(v) == IF v = 0 THEN 0 ELSE 1 + BitLength(v \div 2)

\* v.to_bytes(k, 'big') for v < 256^k
RECURSIVE ToBytesBig(_, _)
ToBytesBig(v, k) == IF k = 0 THEN <<>> ELSE Append(ToBytesBig(v \div 256, k - 1), v % 256)

\* the byte count rounded down: v.bit_length() // 8 or 1
MinimalBytesRoundedDown(v) ==
    LET k == BitLength(v) \div 8
    IN  ToBytesBig(v, IF k = 0 THEN 1 ELSE k)

\* v.to_bytes((v.bit_length() + 7) // 8 or 1, 'big')
MinimalBytes(v) ==
    LET k == (BitLength(v) + 7) \div 8
    IN  ToBytesBig(v, IF k = 0 THEN 1 ELSE k)

\* the character of one hex digit, lower case
HexDigit(d) == IF d < 10 THEN 48 + d ELSE 87 + d

\* bytes.hex()
RECURSIVE BytesHex(_)
BytesHex(b) ==
    IF b = <<>> THEN <<>>
    ELSE <<HexDigit(Head(b) \div 16), HexDigit(Head(b) % 16)>> \o BytesHex(Tail(b))

\* the text of the 'license' record
ItxtTextContent(length_for_header) ==
    LET hex_val_for_header_str == BytesHex(MinimalBytes(length_for_header))
        len_of_part2_as_str_in_bytes == Len(Utf8Encode(hex_val_for_header_str))
        hex_len_of_part2_str == BytesHex(MinimalBytes(len_of_part2_as_str_in_bytes))
    IN  hex_len_of_part2_str \o <<32>> \o hex_val_for_header_str

\* b"license\x00\x00\x00\x00\x00"
itxt_keyword_and_params == <<108, 105, 99, 101, 110, 115, 101, 0, 0, 0, 0, 0>>

ItxtChunkData(text) == itxt_keyword_and_params \o Utf8Encode(text)

upscale_image(data, width, height, uw, uh) ==
    [k \in 1..(uh * uw * bpp) |->
        LET c     == (k - 1) % bpp
            x     == ((k - 1) \div bpp) % uw
            y     == ((k - 1) \div bpp) \div uw
            src_x == (x * width) \div uw
            src_y == (y * height) \div uh
        IN  data[(src_y * width + src_x) * bpp + c + 1]]

\* the rows y, y+1, ..., h-1 of the uncompressed image data
RECURSIVE RowPackFrom(_, _, _, _)
RowPackFrom(data, w, h, y) ==
    IF y >= h THEN <<>>
    ELSE <<0>> \o PySlice(data, y * w * bpp, y * w * bpp + w * bpp)
               \o RowPackFrom(data, w, h, y + 1)

RowPack(data, idat_processing_w, idat_processing_h) ==
    RowPackFrom(data, idat_processing_w, idat_processing_h, 0)

\* what encode had computed when it stopped: "error" is an exception that
\* ends encode at that stage
Aborted(stage) == [status |-> "error", stage |-> stage]

Framed(stage, length_for_header, data_to_embed, pixels_needed, grid_w, grid_h) ==
    [status |-> "error", stage |-> stage, length_for_header |-> length_for_header,
     data_to_embed |-> data_to_embed, pixels_needed |-> pixels_needed,
     grid_w |-> grid_w, grid_h |-> grid_h]

Fitted(stage, length_for_header, data_to_embed, pixels_needed, grid_w, grid_h, final_pixel_data, ihdr_w, ihdr_h) ==
    [status |-> "error", stage |-> stage, length_for_header |-> length_for_header,
     data_to_embed |-> data_to_embed, pixels_needed |-> pixels_needed,
     grid_w |-> grid_w, grid_h |-> grid_h, final_pixel_data |-> final_pixel_data,
     ihdr_w |-> ihdr_w, ihdr_h |-> ihdr_h]

NoPad == Returned(<<>>, "unused")

encode(raw_input_bytes, cli_width_arg, cli_height_arg, cli_length_arg, rand_source, uw, uh, e) ==
    LET actual_raw_input_len == Len(raw_input_bytes)
        pad1 == IF ~IsNone(cli_length_arg) /\ actual_raw_input_len < Val(cli_length_arg)
                THEN read_bytes_from_source(Val(cli_length_arg) - actual_raw_input_len,
                                            rand_source, e)
                ELSE NoPad
    IN
    IF ~pad1.ok THEN Aborted("length_padding") ELSE
    LET length_for_header == LengthForHeader(raw_input_bytes, cli_length_arg)
        data_to_embed == DataToEmbed(raw_input_bytes, cli_length_arg, pad1.bytes)
        current_data_len == Len(data_to_embed)
        pixels_needed == PixelsNeeded(current_data_len)
        grid == GridDimensions(pixels_needed, cli_width_arg, cli_height_arg)
        grid_w == grid[1]
        grid_h == grid[2]
        final_pixel_grid_capacity == grid_w * grid_h * bpp
        pad2 == IF current_data_len < final_pixel_grid_capacity
                THEN read_bytes_from_source(final_pixel_grid_capacity - current_data_len,
                                            rand_source, e)
                ELSE NoPad
    IN
    IF ~pad2.ok
    THEN Framed("grid_padding", length_for_header, data_to_embed, pixels_needed,
                grid_w, grid_h)
    ELSE
    LET final_pixel_data == FinalPixelData(data_to_embed, final_pixel_grid_capacity,
                                           pad2.bytes)
        ihdr_w == IhdrDim(uw, grid_w)
        ihdr_h == IhdrDim(uh, grid_h)
        scaled == Truthy(uw) /\ Truthy(uh)
    IN
    \* struct.pack(">II...") takes 0 .. 2^32 - 1
    IF ihdr_w < 0 \/ ihdr_h < 0
    THEN Fitted("ihdr", length_for_header, data_to_embed, pixels_needed, grid_w, grid_h,
                final_pixel_data, ihdr_w, ihdr_h)
    ELSE
    \* numpy's reshape((height, width, bpp)) takes exactly height*width*bpp bytes
    IF scaled /\ Len(final_pixel_data) # grid_h * grid_w * bpp
    THEN Fitted("reshape", length_for_header, data_to_embed, pixels_needed, grid_w,
                grid_h, final_pixel_data, ihdr_w, ihdr_h)
    ELSE
    LET data_for_idat_processing ==
            IF scaled THEN upscale_image(final_pixel_data, grid_w, grid_h, Val(uw), Val(uh))
            ELSE final_pixel_data
        idat_processing_w == IF scaled THEN Val(uw) ELSE grid_w
        idat_processing_h == IF scaled THEN Val(uh) ELSE grid_h
    IN  [status |-> "ok",
         stage |-> "done",
         length_for_header |-> length_for_header,
         data_to_embed |-> data_to_embed,
         pixels_needed |-> pixels_needed,
         grid_w |-> grid_w,
         grid_h |-> grid_h,
         final_pixel_data |-> final_pixel_data,
         ihdr_w |-> ihdr_w,
         ihdr_h |-> ihdr_h,
         itxt |-> <<ItxtChunkData(ItxtTextContent(length_for_header))>>,
         raw |-> RowPack(data_for_idat_processing, idat_processing_w, idat_processing_h)]

----------------------------------------------------------------------------
(* decode *)

\* png.Reader.read_flat() on the uncompressed image data of an 8-bit RGBA
\* image: rows of 1 + 4*width bytes are consumed while they last; bytes left
\* over, or a filter type above 4, are a FormatError.  Rows of filter type 0
\* are delivered as they are (the filter types 1..4 are not modelled: no
\* byte of the model has these values).
RECURSIVE Scanlines(_, _)
Scanlines(raw, rb) ==
    IF Len(raw) < rb + 1 THEN <<>>
    ELSE SubSeq(raw, 2, rb + 1) \o Scanlines(SubSeq(raw, rb + 2, Len(raw)), rb)

FilterBytes(raw, rb) == {raw[1 + k * (rb + 1)] : k \in 0..((Len(raw) \div (rb + 1)) - 1)}

read_flat(container) ==
    LET rb == container.ihdr_w * bpp
    IN  IF Len(container.raw) % (rb + 1) # 0 \/ FilterBytes(container.raw, rb) # {0}
        THEN [ok |-> FALSE, w |-> container.ihdr_w, h |-> container.ihdr_h,
              img_data |-> <<>>]
        ELSE [ok |-> TRUE, w |-> container.ihdr_w, h |-> container.ihdr_h,
              img_data |-> Scanlines(container.raw, rb)]

AsciiWhitespace == {9, 10, 11, 12, 13, 32}

\* str.strip()
RECURSIVE LStrip(_)
LStrip(s) == IF s # <<>> /\ Head(s) \in AsciiWhitespace THEN LStrip(Tail(s)) ELSE s

RECURSIVE RStrip(_)
RStrip(s) ==
    IF s # <<>> /\ s[Len(s)] \in AsciiWhitespace THEN RStrip(SubSeq(s, 1, Len(s) - 1)) ELSE s

Strip(s) == RStrip(LStrip(s))

\* str.split(' ', 1)
SplitFirstSpace(s) ==
    IF \E i \in 1..Len(s) : s[i] = 32
    THEN LET i == CHOOSE i \in 1..Len(s) : s[i] = 32 /\ \A j \in 1..(i - 1) : s[j] # 32
         IN  <<SubSeq(s, 1, i - 1), SubSeq(s, i + 1, Len(s))>>
    ELSE <<s>>

IsHexChar(c) == c \in (48..57) \cup (97..102) \cup (65..70)

HexValue(c) == IF c <= 57 THEN c - 48 ELSE IF c >= 97 THEN c - 87 ELSE c - 55

\* bytes.fromhex(s): white space between the bytes is skipped; anything else
\* than pairs of hex digits is a ValueError
RECURSIVE FromHex(_)
FromHex(s) ==
    IF s = <<>> THEN [ok |-> TRUE, bytes |-> <<>>]
    ELSE IF Head(s) \in AsciiWhitespace THEN FromHex(Tail(s))
    ELSE IF Len(s) >= 2 /\ IsHexChar(s[1]) /\ IsHexChar(s[2])
         THEN LET rest == FromHex(SubSeq(s, 3, Len(s)))
              IN  [ok |-> rest.ok,
                   bytes |-> <<HexValue(s[1]) * 16 + HexValue(s[2])>> \o rest.bytes]
         ELSE [ok |-> FALSE, bytes |-> <<>>]

\* int.from_bytes(b, 'big')
RECURSIVE IntFromBytes(_)
IntFromBytes(b) ==
    IF b = <<>> THEN 0 ELSE IntFromBytes(SubSeq(b, 1, Len(b) - 1)) * 256 + b[Len(b)]

Unparsed(w) == [length |-> None, found |-> FALSE, warnings |-> w]

\* a second part that is not hex read as the length 0
ParseLicenseZeroOnError(actual_text_content) ==
    LET parts == SplitFirstSpace(Strip(actual_text_content))
    IN  IF Len(parts) # 2 THEN Unparsed({})
        ELSE LET part2 == FromHex(parts[2])
             IN  [length |-> Some(IF part2.ok THEN IntFromBytes(part2.bytes) ELSE 0),
                  found |-> TRUE, warnings |-> {}]

\* the handling of the text of one 'license' record: the length, whether the
\* header was found and parsed ("break"), and the warnings printed
ParseLicense(actual_text_content) ==
    LET parts == SplitFirstSpace(Strip(actual_text_content))
    IN  IF Len(parts) # 2 THEN Unparsed({})
        ELSE LET part1 == FromHex(parts[1])
                 part2 == FromHex(parts[2])
                 actual_len_of_part2_str_in_bytes == Len(Utf8Encode(parts[2]))
                 w1 == IF ~part1.ok THEN {"part1_hex"}
                       ELSE IF IntFromBytes(part1.bytes) # actual_len_of_part2_str_in_bytes
                            THEN {"mismatch"}
                            ELSE {}
             IN  IF ~part2.ok THEN Unparsed(w1 \cup {"parse_error"})
                 ELSE [length |-> Some(IntFromBytes(part2.bytes)), found |-> TRUE,
                       warnings |-> w1]

\* 'itxt' in meta: the records (keyword, text) are tried in order until one
\* 'license' record is parsed
RECURSIVE LicenseFromMeta(_)
LicenseFromMeta(records) ==
    IF records = <<>> THEN Unparsed({})
    ELSE IF Head(records).keyword # <<108, 105, 99, 101, 110, 115, 101>>
         THEN LicenseFromMeta(Tail(records))
         ELSE LET r == ParseLicense(Head(records).text)
              IN  IF r.found THEN r
                  ELSE LET rest == LicenseFromMeta(Tail(records))
                       IN  [rest EXCEPT !.warnings = r.warnings \cup @]

\* bytes.decode('utf-8') of bytes below 0x80; anything else in the model's
\* chunks is an invalid sequence
Utf8Decode(b) == [ok |-> \A i \in 1..Len(b) : b[i] < 128, str |-> b]

\* the positions (from 0) of the bytes of a set of positions (from 1), in order
RECURSIVE SortedPositions(_)
SortedPositions(z) ==
    IF z = {} THEN <<>>
    ELSE LET m == CHOOSE m \in z : \A o \in z : m <= o
         IN  <<m - 1>> \o SortedPositions(z \ {m})

\* the positions (from 0) of the zero bytes, in order
NullPositions(chunk_data) ==
    SortedPositions({i \in 1..Len(chunk_data) : chunk_data[i] = 0})

\* the fallback: the first iTXt chunk of the file is parsed by hand
LicenseFromChunks(itxt_chunks) ==
    IF itxt_chunks = <<>> THEN Unparsed({})
    ELSE LET chunk_data == Head(itxt_chunks)
             null_positions == NullPositions(chunk_data)
         IN  IF Len(null_positions) < 4 THEN Unparsed({})
             ELSE LET keyword == Utf8Decode(PyTake(chunk_data, null_positions[1]))
                  IN  IF ~keyword.ok THEN Unparsed({"read_error"})
                      ELSE IF keyword.str # <<108, 105, 99, 101, 110, 115, 101>>
                           THEN Unparsed({})
                      \* null_positions[4] of a list of four: IndexError
                      ELSE IF Len(null_positions) < 5 THEN Unparsed({"read_error"})
                      ELSE LET text == Utf8Decode(SubSeq(chunk_data, null_positions[5] + 2,
                                                         Len(chunk_data)))
                           IN  IF ~text.ok THEN Unparsed({"read_error"})
                               ELSE ParseLicense(text.str)

\* lines 245-261: what is written, and the requests made to the randomness
\* source
DecodeOutput(img_data, w, h, final_length_target, rand_source, e) ==
    LET max_embedded_bytes == w * h * bpp
    IN  IF ~IsNone(final_length_target)
        THEN IF Val(final_length_target) <= max_embedded_bytes
             THEN [status |-> "ok", output |-> PyTake(img_data, Val(final_length_target)),
                   requests |-> <<>>]
             ELSE LET padding_needed == Val(final_length_target) - max_embedded_bytes
                      padding == read_bytes_from_source(padding_needed, rand_source, e)
                  IN  [status |-> IF padding.ok THEN "ok" ELSE "error",
                       output |-> PyTake(img_data, max_embedded_bytes) \o padding.bytes,
                       requests |-> <<padding_needed>>]
        ELSE [status |-> "ok", output |-> PyTake(img_data, max_embedded_bytes),
              requests |-> <<>>]

\* the header's length preferred to the override
FinalLengthTargetHeaderFirst(length_override, decoded_length_from_header) ==
    IF ~IsNone(decoded_length_from_header) THEN decoded_length_from_header
    ELSE length_override

FinalLengthTarget(length_override, decoded_length_from_header) ==
    IF ~IsNone(length_override) THEN length_override ELSE decoded_length_from_header

\* container: the header's width and height, the uncompressed image data,
\* the data of the iTXt chunks in file order, and meta_itxt, what the reader
\* gives as meta['itxt'] (None when it gives no such key)
decode(container, length_override, rand_source, width, height, uw, uh, e) ==
    LET r == read_flat(container)
    IN  IF ~r.ok THEN [status |-> "error", output |-> <<>>, requests |-> <<>>,
                       decoded_length_from_header |-> None, warnings |-> {},
                       w |-> r.w, h |-> r.h, img_data |-> <<>>]
        ELSE LET header == IF ~IsNone(container.meta_itxt)
                           THEN LicenseFromMeta(Val(container.meta_itxt))
                           ELSE LicenseFromChunks(container.itxt)
                 written == DecodeOutput(r.img_data, r.w, r.h,
                                         FinalLengthTarget(length_override, header.length),
                                         rand_source, e)
             IN  [status |-> written.status, output |-> written.output,
                  requests |-> written.requests,
                  decoded_length_from_header |-> header.length,
                  warnings |-> header.warnings,
                  w |-> r.w, h |-> r.h, img_data |-> r.img_data]

----------------------------------------------------------------------------
(* Bounds and input sets *)

MaxFill == 7

MaxStreams == 2

NoFiles == [p \in {} |-> <<>>]

\* the path "f"
FilePath == <<102>>

FileWith(content) == [p \in {FilePath} |-> content]

\* a file longer than any request of the model, and short ones
LongFile == [i \in 1..80 |-> 120 + i]

FileSystems == {NoFiles, FileWith(<<>>), FileWith(<<201>>), FileWith(LongFile)}

Envs == [files : FileSystems, cwd : BOOLEAN, devrandom : BOOLEAN,
         urandom : BOOLEAN, stream : 1..MaxStreams]

\* "", "a", "abc", "f", "e-acute b"
Selectors == {<<>>, <<97>>, <<97, 98, 99>>, FilePath, <<233, 98>>}

RandSources == {None} \cup {Some(s) : s \in Selectors}

Idle == [status |-> "none"]

----------------------------------------------------------------------------
(* read_bytes_from_source on its own *)

InitFill ==
    /\ pc = "fill_ready"
    /\ args \in [n : 0..MaxFill, rand_source : RandSources]
    /\ env \in Envs
    /\ filled = Idle
    /\ png = Idle
    /\ out = Idle

Fill ==
    /\ pc = "fill_ready"
    /\ pc' = "filled"
    /\ filled' = read_bytes_from_source(args.n, args.rand_source, env)
    /\ UNCHANGED <<args, env, png, out>>

NextFill == Fill

SpecFill == InitFill /\ [][NextFill]_vars

----------------------------------------------------------------------------
(* encode on its own *)

MaxPayload == 6

MaxLength == 6

MaxDim == 3

\* the payload of n bytes 17, 18, ...; and payloads of zero bytes
Payload(n) == [i \in 1..n |-> 16 + i]

Payloads == {Payload(n) : n \in (0..MaxPayload) \cup {10}} \cup {<<0>>, <<0, 0, 0, 0, 0>>}

OptDims == {None} \cup {Some(d) : d \in {-1, 0, 1, MaxDim}}

OptLengths == {None} \cup {Some(l) : l \in {0, 1, 3, MaxLength}}

OptDisplay == {None} \cup {Some(d) : d \in {0, 1, 2, 4}}

\* the environments encode and decode are run in: the selector with the
\* files and generators it meets
SysEnv(fs, c, st) == [files |-> fs, cwd |-> c, devrandom |-> TRUE, urandom |-> TRUE,
                      stream |-> st]

RandScenarios ==
    {<<None, SysEnv(NoFiles, TRUE, st)>> : st \in 1..MaxStreams}
    \cup {<<Some(<<>>), SysEnv(NoFiles, c, 1)>> : c \in BOOLEAN}
    \cup {<<Some(<<97, 98, 99>>), SysEnv(NoFiles, TRUE, 1)>>}
    \cup {<<Some(FilePath), SysEnv(FileWith(f), TRUE, 1)>> : f \in {<<201>>, LongFile}}

InitEncode ==
    /\ pc = "encode_ready"
    /\ \E sc \in RandScenarios :
          /\ args \in [payload : Payloads, width : OptDims, height : OptDims,
                       length : OptLengths, rand_source : {sc[1]},
                       uw : OptDisplay, uh : OptDisplay]
          /\ env = sc[2]
    /\ filled = Idle
    /\ png = Idle
    /\ out = Idle

Encode ==
    /\ pc = "encode_ready"
    /\ pc' = "encoded"
    /\ png' = encode(args.payload, args.width, args.height, args.length,
                     args.rand_source, args.uw, args.uh, env)
    /\ UNCHANGED <<args, env, filled, out>>

NextEncode == Encode

SpecEncode == InitEncode /\ [][NextEncode]_vars

----------------------------------------------------------------------------
(* encode, then decode of what encode wrote.  The reader is pypng, which   *)
(* gives no 'itxt' key.  decode is given either no dimensions or the ones  *)
(* encode used.                                                            *)

RoundTripDims == {None, Some(1), Some(2)}

InitRoundTrip ==
    /\ pc = "encode_ready"
    /\ \E sc \in RandScenarios :
          /\ args \in [payload : Payloads, width : RoundTripDims, height : RoundTripDims,
                       length : {None, Some(3)}, rand_source : {sc[1]},
                       uw : OptDisplay, uh : OptDisplay,
                       dec_length : {None, Some(2)}, dec_dims : {"none", "same"}]
          /\ env = sc[2]
    /\ filled = Idle
    /\ png = Idle
    /\ out = Idle

Container(p) == [ihdr_w |-> p.ihdr_w, ihdr_h |-> p.ihdr_h, raw |-> p.raw,
                 itxt |-> p.itxt, meta_itxt |-> None]

DecodeEncoded ==
    /\ pc = "encoded"
    /\ png.status = "ok"
    /\ pc' = "decoded"
    /\ out' = IF args.dec_dims = "same"
              THEN decode(Container(png), args.dec_length, args.rand_source,
                          Some(png.grid_w), Some(png.grid_h), args.uw, args.uh, env)
              ELSE decode(Container(png), args.dec_length, args.rand_source,
                          None, None, None, None, env)
    /\ UNCHANGED <<args, env, filled, png>>

NextRoundTrip == Encode \/ DecodeEncoded

SpecRoundTrip == InitRoundTrip /\ [][NextRoundTrip]_vars

----------------------------------------------------------------------------
(* decode of a container from anywhere: a well-formed image with any       *)
(* metadata                                                                *)

Concat3(a, b, c) == a \o b \o c

\* "", "02", "04", "2", "g0"
Part1s == {<<>>, <<48, 50>>, <<48, 52>>, <<50>>, <<103, 48>>}

\* "", " ", "  "
Separators == {<<>>, <<32>>, <<32, 32>>}

\* "", "0a", "0A", "0g", "0a0b", "0a 0b", "a"
Part2s == {<<>>, <<48, 97>>, <<48, 65>>, <<48, 103>>, <<48, 97, 48, 98>>,
           <<48, 97, 32, 48, 98>>, <<97>>}

Texts == {lead \o Concat3(p1, sep, p2) \o trail :
            lead \in {<<>>, <<32>>}, trail \in {<<>>, <<10>>},
            p1 \in Part1s, sep \in Separators, p2 \in Part2s}

\* 'license', 'other'
LicenseKeyword == <<108, 105, 99, 101, 110, 115, 101>>

OtherKeyword == <<111, 116, 104, 101, 114>>

\* "02 0a", "0g", "02 0g"
GoodText == <<48, 50, 32, 48, 97>>

BadTexts == {<<48, 103>>, <<48, 50, 32, 48, 103>>}

\* an iTXt chunk: keyword, 0, compression flag and method, language tag, 0,
\* translated keyword, 0, text; the encoder writes five zero bytes
Chunk(k, zeros, t) == k \o [i \in 1..zeros |-> 0] \o t

Record(k, z, t) == [keyword |-> k, zeros |-> z, text |-> t]

\* the text records of a container, in file order
RecordLists ==
    {<<>>}
    \cup {<<Record(LicenseKeyword, 5, t)>> : t \in Texts}
    \cup {<<Record(k, 5, GoodText)>> : k \in {OtherKeyword, <<233>>}}
    \cup {<<Record(LicenseKeyword, 5, <<48, 50, 32, 48, 233>>)>>}
    \cup {<<Record(k, 5, t1), Record(LicenseKeyword, 5, t2)>> :
            k \in {LicenseKeyword, OtherKeyword}, t1 \in BadTexts,
            t2 \in BadTexts \cup {GoodText}}

\* chunks that do not have the five zero bytes
ShortRecordLists == {<<Record(k, z, GoodText)>> : k \in {LicenseKeyword, OtherKeyword},
                                                   z \in 3..4}

\* the image of w x h pixels with the bytes 17, 18, ...
Image(w, h) == [ihdr_w |-> w, ihdr_h |-> h, raw |-> RowPack(Payload(w * h * bpp), w, h)]

Images == {Image(1, 1), Image(2, 1), Image(1, 2)}

\* what the reader makes of the records: meta['itxt'], or no such key and
\* the chunks themselves
BuildContainer(image, reader, records) ==
    [ihdr_w |-> image.ihdr_w, ihdr_h |-> image.ihdr_h, raw |-> image.raw,
     itxt |-> [i \in 1..Len(records) |->
                  Chunk(records[i].keyword, records[i].zeros, records[i].text)],
     meta_itxt |-> IF reader = "meta"
                   THEN Some([i \in 1..Len(records) |->
                                [keyword |-> records[i].keyword, text |-> records[i].text]])
                   ELSE None]

DecodeScenarios ==
    {<<Some(<<>>), SysEnv(NoFiles, TRUE, 1)>>,
     <<Some(<<97, 98, 99>>), SysEnv(NoFiles, TRUE, 1)>>,
     <<Some(FilePath), SysEnv(FileWith(<<201>>), TRUE, 1)>>}
    \cup {<<None, SysEnv(NoFiles, TRUE, st)>> : st \in 1..MaxStreams}

MaxOverride == 11

InitDecode ==
    /\ pc = "decode_ready"
    /\ \E sc \in DecodeScenarios :
          /\ \/ args \in [image : Images, reader : {"meta", "chunks"},
                          records : RecordLists,
                          length : {None} \cup {Some(l) : l \in {0, 5, 8, MaxOverride}},
                          rand_source : {sc[1]}]
             \/ args \in [image : Images, reader : {"chunks"},
                          records : ShortRecordLists,
                          length : {None} \cup {Some(l) : l \in {0, 5, 8, MaxOverride}},
                          rand_source : {sc[1]}]
          /\ env = sc[2]
    /\ filled = Idle
    /\ png = Idle
    /\ out = Idle

Decode ==
    /\ pc = "decode_ready"
    /\ pc' = "decoded"
    /\ out' = decode(BuildContainer(args.image, args.reader, args.records),
                     args.length, args.rand_source, None, None, None, None, env)
    /\ UNCHANGED <<args, env, filled, png>>

NextDecode == Decode

SpecDecode == InitDecode /\ [][NextDecode]_vars

----------------------------------------------------------------------------
(* the grid dimensions on their own: step 3 of encode for a data length    *)

MaxDataLen == 70

MaxGridArg == 5

InitGrid ==
    /\ pc = "grid_ready"
    /\ args \in [current_data_len : 0..MaxDataLen,
                 width : {None} \cup {Some(d) : d \in -2..MaxGridArg},
                 height : {None} \cup {Some(d) : d \in -2..MaxGridArg}]
    /\ env = SysEnv(NoFiles, TRUE, 1)
    /\ filled = Idle
    /\ png = Idle
    /\ out = Idle

SolveGrid ==
    /\ pc = "grid_ready"
    /\ pc' = "grid_solved"
    /\ LET grid == GridDimensions(PixelsNeeded(args.current_data_len),
                                  args.width, args.height)
       IN  png' = [status |-> "grid", grid_w |-> grid[1], grid_h |-> grid[2],
                   final_pixel_grid_capacity |-> grid[1] * grid[2] * bpp]
    /\ UNCHANGED <<args, env, filled, out>>

NextGrid == SolveGrid

SpecGrid == InitGrid /\ [][NextGrid]_vars

----------------------------------------------------------------------------
(* the 'license' record on its own: written as encode writes it, read as   *)
(* decode reads it                                                         *)

MaxHeaderLength == 300

HeaderLengths == (0..MaxHeaderLength)
                 \cup {4095, 4096, 65535, 65536, 16777215, 16777216, 2147483647}

InitHeader ==
    /\ pc = "header_ready"
    /\ args \in [length_for_header : HeaderLengths]
    /\ env = SysEnv(NoFiles, TRUE, 1)
    /\ filled = Idle
    /\ png = Idle
    /\ out = Idle

WriteHeader ==
    /\ pc = "header_ready"
    /\ pc' = "header_written"
    /\ png' = [status |-> "header",
               text |-> ItxtTextContent(args.length_for_header),
               itxt |-> <<ItxtChunkData(ItxtTextContent(args.length_for_header))>>]
    /\ UNCHANGED <<args, env, filled, out>>

ReadHeader ==
    /\ pc = "header_written"
    /\ pc' = "header_read"
    /\ out' = LicenseFromChunks(png.itxt)
    /\ UNCHANGED <<args, env, filled, png>>

NextHeader == WriteHeader \/ ReadHeader

SpecHeader == InitHeader /\ [][NextHeader]_vars

----------------------------------------------------------------------------
(* Properties *)

\* the payload was encoded and decoded with no length override, no explicit
\* grid and no display dimensions
Plain ==
    /\ IsNone(args.length) /\ IsNone(args.width) /\ IsNone(args.height)
    /\ IsNone(args.uw) /\ IsNone(args.uh) /\ IsNone(args.dec_length)

\* C1: round trip.  For every payload, encode with no length override, no
\* explicit width/height and no display width/height, followed by decode
\* with no length override, outputs exactly the payload, whatever the
\* randomness source supplied as grid padding.
C1_RoundTrip ==
    Plain =>
        /\ pc = "encoded" => png.status = "ok"
        /\ pc = "decoded" => out.status = "ok" /\ out.output = args.payload

\* The round trip of C1 for the encodes whose grid padding came in full.
RoundTripWithCompletePadding ==
    (/\ Plain
     /\ pc = "decoded"
     /\ Len(png.final_pixel_data) = png.grid_w * png.grid_h * 4)
        => out.status = "ok" /\ out.output = args.payload

\* C2: the grid has width >= 1 and height >= 1 for every data length and
\* every explicit width/height (absent, zero, negative, positive), and when
\* at least one dimension is computed the grid holds max(1, ceil(L/4))
\* pixels, that is all L bytes.
C2_GridHoldsData ==
    pc = "grid_solved" =>
        LET L    == args.current_data_len
            need == IF L = 0 THEN 1 ELSE (L + 3) \div 4
        IN  /\ png.grid_w >= 1
            /\ png.grid_h >= 1
            /\ (IsNone(args.width) \/ IsNone(args.height)) =>
                   /\ png.grid_w * png.grid_h * 4 >= need * 4
                   /\ png.final_pixel_grid_capacity >= L

\* 10 bytes with no explicit dimension: 3 pixels, a grid of 1 x 3
C2_Witness ==
    /\ pc = "grid_solved"
    /\ args.current_data_len = 10
    /\ IsNone(args.width) /\ IsNone(args.height)
    /\ png.grid_w = 1 /\ png.grid_h = 3

\* C3: the text "<hexN> <hexL>" that encode writes for the header length L
\* is read back by decode as exactly L, and the value of the first part is
\* the length of the second part: no mismatch is reported.
C3_MetadataRoundTrip ==
    pc = "header_read" =>
        /\ out.found
        /\ out.length = Some(args.length_for_header)
        /\ out.warnings = {}

\* L = 65536 is written "06 010000" and read back as 65536
C3_Witness ==
    /\ pc = "header_read"
    /\ args.length_for_header = 65536
    /\ png.text = <<48, 54, 32, 48, 49, 48, 48, 48, 48>>
    /\ out.length = Some(65536)

\* C4: with T the length override if there is one and the header's length
\* otherwise, and capacity = width * height * 4: when T <= capacity the
\* output is the first T bytes of the image data; when T > capacity it is
\* all capacity bytes followed by the result of one fill(T - capacity), so
\* it has T bytes whenever fill returns the bytes requested.
C4_DecodeOutputRule ==
    pc = "decoded" =>
        LET T == IF ~IsNone(args.length) THEN args.length
                 ELSE out.decoded_length_from_header
            capacity == args.image.ihdr_w * args.image.ihdr_h * 4
            image_bytes == Payload(capacity)
        IN  \/ IsNone(T)
            \/ /\ Val(T) <= capacity
               /\ out.status = "ok"
               /\ out.output = SubSeq(image_bytes, 1, Val(T))
               /\ out.requests = <<>>
            \/ /\ Val(T) > capacity
               /\ LET fill == read_bytes_from_source(Val(T) - capacity,
                                                     args.rand_source, env)
                  IN  /\ out.requests = <<Val(T) - capacity>>
                      /\ out.output = image_bytes \o fill.bytes
                      /\ (fill.ok /\ Len(fill.bytes) = Val(T) - capacity) =>
                             (out.status = "ok" /\ Len(out.output) = Val(T))

\* a header of 10, an override of 11, an image of 8 bytes and the selector
\* "abc": the 8 bytes and "abc"
C4_Witness ==
    /\ pc = "decoded"
    /\ args.length = Some(11)
    /\ out.decoded_length_from_header = Some(10)
    /\ out.requests = <<3>>
    /\ out.output = <<17, 18, 19, 20, 21, 22, 23, 24, 97, 98, 99>>

\* C5: decode given the storage grid and the display dimensions of an image
\* that encode enlarged by whole factors samples the image back to the
\* storage grid and outputs the original payload.
C5_InverseScaling ==
    (/\ pc = "decoded"
     /\ args.dec_dims = "same"
     /\ IsNone(args.length) /\ IsNone(args.dec_length)
     /\ Truthy(args.uw) /\ Truthy(args.uh)
     /\ Val(args.uw) % png.grid_w = 0
     /\ Val(args.uh) % png.grid_h = 0
     /\ out.w = Val(args.uw) /\ out.h = Val(args.uh)
     /\ Len(args.payload) <= png.grid_w * png.grid_h * 4)
        => out.status = "ok" /\ out.output = args.payload

\* C6: a non-empty selector that names no existing path is a tile: fill(n)
\* has n bytes, byte i being byte (i mod len) of the selector's UTF-8
\* encoding, the same in every environment.
C6_LiteralTile ==
    (/\ pc = "filled"
     /\ ~IsNone(args.rand_source)
     /\ Val(args.rand_source) # <<>>
     /\ Val(args.rand_source) \notin DOMAIN env.files)
        => LET tile == Utf8Encode(Val(args.rand_source))
           IN  /\ filled.ok
               /\ Len(filled.bytes) = args.n
               /\ \A i \in 1..args.n :
                     filled.bytes[i] = tile[((i - 1) % Len(tile)) + 1]

\* "abc" and n = 7 give "abcabca"
C6_Witness ==
    /\ pc = "filled"
    /\ args.rand_source = Some(<<97, 98, 99>>)
    /\ args.n = 7
    /\ filled.bytes = <<97, 98, 99, 97, 98, 99, 97>>

\* the texts of the container's 'license' records
LicenseTexts ==
    {args.records[i].text : i \in {j \in 1..Len(args.records) :
                                     /\ args.records[j].keyword = LicenseKeyword
                                     /\ args.records[j].zeros = 5}}

\* a text with no space between two parts, or with a second part that is
\* not hex
Unusable(t) ==
    LET parts == SplitFirstSpace(Strip(t))
    IN  Len(parts) # 2 \/ ~FromHex(parts[2]).ok

\* C7: when the 'license' record is absent, has no space between two parts
\* or has a second part that is not hex, decode with no length override does
\* not abort, outputs all width*height*4 image bytes and asks the randomness
\* source for nothing.  A first part that is not hex or disagrees with the
\* second part's length gives a warning only: the length is the second
\* part's value.
C7_UnknownHeaderLength ==
    (pc = "decoded" /\ IsNone(args.length)) =>
        /\ (\A t \in LicenseTexts : Unusable(t)) =>
               /\ out.status = "ok"
               /\ IsNone(out.decoded_length_from_header)
               /\ out.output = Payload(args.image.ihdr_w * args.image.ihdr_h * 4)
               /\ out.requests = <<>>
        /\ (/\ Len(args.records) = 1
            /\ LicenseTexts # {}
            /\ ~Unusable(args.records[1].text)) =>
               LET parts == SplitFirstSpace(Strip(args.records[1].text))
                   part1 == FromHex(parts[1])
                   agrees == part1.ok /\ IntFromBytes(part1.bytes) = Len(parts[2])
               IN  /\ out.decoded_length_from_header
                          = Some(IntFromBytes(FromHex(parts[2]).bytes))
                   /\ out.warnings \subseteq {"part1_hex", "mismatch"}
                   /\ (out.warnings = {}) <=> agrees

\* the record "02 0g" read from the chunk: a warning, and the 8 image bytes
C7_Witness ==
    /\ pc = "decoded"
    /\ IsNone(args.length)
    /\ args.reader = "chunks"
    /\ args.records = <<Record(LicenseKeyword, 5, <<48, 50, 32, 48, 103>>)>>
    /\ "parse_error" \in out.warnings
    /\ out.output = <<17, 18, 19, 20, 21, 22, 23, 24>>

\* C8: an empty selector behaves as an absent one: fill(n) does not fail and
\* returns n bytes from the system chain (blocking device, OS random,
\* software generator).
C8_EmptySelectorIsAbsent ==
    (pc = "filled" /\ args.rand_source = Some(<<>>)) =>
        /\ filled.ok
        /\ Len(filled.bytes) = args.n
        /\ filled = read_bytes_from_source(args.n, None, env)

\* C9: in every encode the buffer placed into the grid has exactly
\* grid_w * grid_h * 4 bytes, and with a length override the data after the
\* length pass has exactly that many bytes, also when the randomness source
\* is a file with fewer bytes than requested.
C9_FramedPayloadSize ==
    pc = "encoded" =>
        /\ png.stage \in {"ihdr", "reshape", "done"} =>
               Len(png.final_pixel_data) = png.grid_w * png.grid_h * 4
        /\ (png.stage # "length_padding" /\ ~IsNone(args.length)) =>
               Len(png.data_to_embed) = Val(args.length)

\* C10: the header's width and height are those of the grid packed into the
\* image data: header_height rows of one zero byte and header_width * 4
\* channel bytes, whatever display width and height are given.  Stated for
\* the encodes whose framed payload has its exact size.
C10_HeaderMatchesImageData ==
    (/\ pc = "encoded"
     /\ png.status = "ok"
     /\ Len(png.final_pixel_data) = png.grid_w * png.grid_h * 4)
        => /\ Len(png.raw) = png.ihdr_h * (1 + 4 * png.ihdr_w)
           /\ \A y \in 0..(png.ihdr_h - 1) : png.raw[y * (1 + 4 * png.ihdr_w) + 1] = 0

====
